---- MODULE Spec2Model ----
(***************************************************************************)
(* Receiver node (Nodo_edge-final.ino): ESP-NOW receive callback, the two  *)
(* evaluator tasks, the Telegram task, the SD writer and setup().          *)
(*                                                                         *)
(* Conventions of the model                                                *)
(*  - float fields carry whole values (30, 31, ...); a comparison with a   *)
(*    threshold is the integer comparison of the same numbers.             *)
(*  - a payload is the tuple of its 4-byte words, len its length in bytes; *)
(*    memcpy into the struct reads the words in order.                     *)
(*  - a path is the tuple of its components: "/%Y-%m-%d/%H/data.txt" at    *)
(*    clock t is <<t \div 24, t % 24, "data.txt">> (day number, hour).     *)
(*  - a text line of an alert is [kind, val]; an alert text is the         *)
(*    sequence of its lines.  A line of the SD file is the tuple of the    *)
(*    five values printf formats.                                          *)
(*  - malloc returns a fresh block; heap[b] keeps, for every block ever    *)
(*    allocated, its text and how often it was sent, freed and touched     *)
(*    after its release.                                                   *)
(*  - xQueueSend / xQueueReceive with portMAX_DELAY block until the queue  *)
(*    has room / holds an element.                                         *)
(***************************************************************************)
EXTENDS Integers, Sequences, FiniteSets, TLC

VARIABLES
    setupPc,      \* position of setup()
    cbRegistered, \* esp_now_register_recv_cb(OnDataRecv) was called
    queuesCreated,\* xQueueCreate was called for the three queues
    timeSynced,   \* getLocalTime() succeeds
    clock,        \* wall clock, in hours
    sdReady,      \* SD_MMC is mounted and answers
    onAir,        \* addresses of the nodes that are switched on and transmit
    dirs,         \* directories of the SD card
    files,        \* files of the SD card: path -> sequence of lines
    saveLog,      \* calls of saveDataToSD so far: how many, and the last arguments
    dhtQueue, soilQueue, msgQueue,
    cb,           \* the receive callback: [pc, rec]
    nRecv,        \* packets the radio handed to the callback so far
    dhtTask,      \* DHTTask: [pc, d, buf]
    soilTask,     \* SoilTask: [pc, s, buf]
    tgTask,       \* TelegramTask: [pc, recvBuffer, ok]
    heap,         \* every block malloc returned: [text, sends, frees, uaf]
    soilNode,     \* the soil sender node: [pc, pct, res, envioCompleto, pending, waited,
                  \*                        relay, pumped]
    dhtNode       \* the unified sender node: [pc, sent, res, confirmed, pending, waited]

vars == <<setupPc, cbRegistered, queuesCreated, timeSynced, clock, sdReady, onAir, dirs,
          files, saveLog, dhtQueue, soilQueue, msgQueue, cb, nRecv, dhtTask,
          soilTask, tgTask, heap, soilNode, dhtNode>>

fsVars == <<dirs, files, saveLog>>
nodeVars == <<onAir, soilNode, dhtNode>>
envVars == <<timeSynced, clock, sdReady, nodeVars>>
queueVars == <<dhtQueue, soilQueue, msgQueue>>
taskVars == <<dhtTask, soilTask, tgTask>>
setupVars == <<setupPc, cbRegistered, queuesCreated>>
\* everything of the receiver and its surroundings
recvVars == <<setupVars, timeSynced, clock, sdReady, onAir, fsVars, queueVars, cb, nRecv,
              taskVars, heap>>

(***************************************************************************)
(* Program constants                                                       *)
(***************************************************************************)
TEMP_THRESHOLD == 30
HUM_THRESHOLD == 80
SOIL_THRESHOLD_LOW == 30
SOIL_THRESHOLD_HIGH == 70
LDR_THRESHOLD == 700
MQ5_THRESHOLD == 1500

unifiedSenderMAC == <<8, 209, 249, 238, 79, 44>>
soilSenderMAC == <<160, 183, 101, 27, 24, 80>>

SizeofDht == 16
SizeofSoil == 4

\* the soil sender node
UMBRAL_HUMEDAD == 30
VALOR_SECO == 2590
VALOR_MOJADO == 1200
ConfirmTimeoutMs == 500
ConfirmPollMs == 10

\* the unified sender node
SendDelayMs == 100

DhtQueueLength == 5
SoilQueueLength == 5
MsgQueueLength == 5

(***************************************************************************)
(* Bounds of the model                                                     *)
(***************************************************************************)
MaxRecv == 2
MaxEvalRecv == 2
MaxLoadRecv == 6
MaxStallRecv == 7
LastHour == 24
FirstHour == LastHour - 2

NULL == 0
NoRec == [none |-> TRUE]

(***************************************************************************)
(* Packets the radio may deliver                                           *)
(***************************************************************************)
otherMAC == <<92, 1, 59, 114, 242, 204>>

Nodes == {unifiedSenderMAC, soilSenderMAC, otherMAC}

DhtPacket(t, h, l, g) == [src_addr |-> unifiedSenderMAC, len |-> 16, data |-> <<t, h, l, g>>]
SoilPacket(m) == [src_addr |-> soilSenderMAC, len |-> 4, data |-> <<m>>]

BadPackets ==
    { [src_addr |-> otherMAC, len |-> 4, data |-> <<25>>],
      [src_addr |-> soilSenderMAC, len |-> 16, data |-> <<31, 81, 701, 1501>>],
      [src_addr |-> unifiedSenderMAC, len |-> 4, data |-> <<25>>] }

Packets ==
    { DhtPacket(31, 50, 0, 0), DhtPacket(30, 80, 700, 1500), SoilPacket(25), SoilPacket(50) }
    \cup BadPackets

\* every combination of values at and just above the thresholds
WidePackets ==
    { DhtPacket(t, h, l, g) : t \in {30, 31}, h \in {80, 81}, l \in {700, 701}, g \in {1500, 1501} }
    \cup { SoilPacket(m) : m \in {29, 30, 50, 70, 71} }

\* packets that all raise an alert, to load the queues
LoadPackets == { DhtPacket(31, 81, 701, 1501), SoilPacket(25) }

AllPackets == Packets \cup WidePackets \cup LoadPackets

(***************************************************************************)
(* saveDataToSD                                                            *)
(***************************************************************************)
getLocalTime == timeSynced

datePathOf(t) == <<t \div 24>>
hourPathOf(t) == <<t \div 24, t % 24>>
filePathOf(t) == <<t \div 24, t % 24, "data.txt">>

Parent(p) == SubSeq(p, 1, Len(p) - 1)

\* SD_MMC.exists(p), on the directory set ds and the file map fs
SdExists(ds, fs, p) == sdReady /\ (p \in ds \/ p \in DOMAIN fs)

\* SD_MMC.mkdir(p): the directories afterwards
SdMkdir(ds, fs, p) ==
    IF sdReady /\ (Parent(p) = <<>> \/ Parent(p) \in ds) /\ p \notin DOMAIN fs
    THEN ds \cup {p}
    ELSE ds

\* SD_MMC.open(p, FILE_APPEND) yields a file
SdOpenAppend(ds, fs, p) == sdReady /\ Parent(p) \in ds /\ p \notin ds

FormatLine(temp, hum, soil, luz, mq5) == <<temp, hum, soil, luz, mq5>>

\* the file opened with FILE_WRITE: what it held is lost
FileWrite(fs, p, line) ==
    [q \in DOMAIN fs \cup {p} |-> IF q = p THEN <<line>> ELSE fs[q]]

\* file.printf(...) on a file opened for appending, then close
FileAppend(fs, p, line) ==
    IF p \in DOMAIN fs
    THEN [fs EXCEPT ![p] = Append(@, line)]
    ELSE [q \in DOMAIN fs \cup {p} |-> IF q = p THEN <<line>> ELSE fs[q]]

\* the result of getLocalTime is not looked at: the line goes to the path that
\* strftime builds from whatever timeinfo holds
saveDataToSDUncheckedTime(temp, hum, soil, luz, mq5) ==
    /\ saveLog' = [n |-> saveLog.n + 1, args |-> <<temp, hum, soil, luz, mq5>>]
    /\ LET datePath == datePathOf(clock)
           hourPath == hourPathOf(clock)
           filePath == filePathOf(clock)
           d1 == IF ~SdExists(dirs, files, datePath)
                 THEN SdMkdir(dirs, files, datePath) ELSE dirs
           d2 == IF ~SdExists(d1, files, hourPath)
                 THEN SdMkdir(d1, files, hourPath) ELSE d1
       IN  /\ dirs' = d2
           /\ files' = IF SdOpenAppend(d2, files, filePath)
                       THEN FileAppend(files, filePath,
                                       FormatLine(temp, hum, soil, luz, mq5))
                       ELSE files

saveDataToSD(temp, hum, soil, luz, mq5) ==
    /\ saveLog' = [n |-> saveLog.n + 1, args |-> <<temp, hum, soil, luz, mq5>>]
    /\ IF ~getLocalTime
       THEN UNCHANGED <<dirs, files>>
       ELSE LET datePath == datePathOf(clock)
                hourPath == hourPathOf(clock)
                filePath == filePathOf(clock)
                d1 == IF ~SdExists(dirs, files, datePath)
                      THEN SdMkdir(dirs, files, datePath) ELSE dirs
                d2 == IF ~SdExists(d1, files, hourPath)
                      THEN SdMkdir(d1, files, hourPath) ELSE d1
            IN  /\ dirs' = d2
                /\ files' = IF SdOpenAppend(d2, files, filePath)
                            THEN FileAppend(files, filePath,
                                            FormatLine(temp, hum, soil, luz, mq5))
                            ELSE files

(***************************************************************************)
(* OnDataRecv                                                              *)
(***************************************************************************)
DecodeSoil(incoming) == [soil |-> incoming[1]]

\* a struct whose first two fields are declared in the other order
DecodeDhtSwapped(incoming) ==
    [temp |-> incoming[2], hum |-> incoming[1], luz |-> incoming[3], mq5 |-> incoming[4]]

DecodeDht(incoming) ==
    [temp |-> incoming[1], hum |-> incoming[2], luz |-> incoming[3], mq5 |-> incoming[4]]

\* the branch taken when only the sender address is compared
RouteNoLength(pkt) ==
    IF pkt.src_addr = soilSenderMAC THEN "soil"
    ELSE IF pkt.src_addr = unifiedSenderMAC /\ pkt.len = SizeofDht THEN "dht"
    ELSE "drop"

\* the branch of OnDataRecv a packet takes
Route(pkt) ==
    IF pkt.src_addr = soilSenderMAC /\ pkt.len = SizeofSoil THEN "soil"
    ELSE IF pkt.src_addr = unifiedSenderMAC /\ pkt.len = SizeofDht THEN "dht"
    ELSE "drop"

CbIdle == [pc |-> "idle", rec |-> NoRec]

\* a radio task that enters the callback for the next packet while the call
\* before it has not returned
OnDataRecvReentrant(pkt) ==
    /\ cbRegistered
    /\ nRecv' = nRecv + 1
    /\ cb' = CASE Route(pkt) = "soil" -> [pc |-> "sendSoil", rec |-> DecodeSoil(pkt.data)]
               [] Route(pkt) = "dht" -> [pc |-> "sendDht", rec |-> DecodeDht(pkt.data)]
               [] OTHER -> CbIdle
    /\ UNCHANGED <<setupVars, envVars, fsVars, queueVars, taskVars, heap>>

\* the radio calls OnDataRecv(info, incoming, len): up to the xQueueSend
OnDataRecv(pkt) ==
    /\ cbRegistered
    /\ cb.pc = "idle"
    /\ nRecv' = nRecv + 1
    /\ cb' = CASE Route(pkt) = "soil" -> [pc |-> "sendSoil", rec |-> DecodeSoil(pkt.data)]
               [] Route(pkt) = "dht" -> [pc |-> "sendDht", rec |-> DecodeDht(pkt.data)]
               [] OTHER -> CbIdle
    /\ UNCHANGED <<setupVars, envVars, fsVars, queueVars, taskVars, heap>>

Deliver(pkts, max) ==
    /\ nRecv < max
    /\ \E pkt \in pkts : pkt.src_addr \in onAir /\ OnDataRecv(pkt)

\* xQueueSend(soilQueue, &s, portMAX_DELAY) returns
RecvSendSoil ==
    /\ cb.pc = "sendSoil"
    /\ Len(soilQueue) < SoilQueueLength
    /\ soilQueue' = Append(soilQueue, cb.rec)
    /\ cb' = [cb EXCEPT !.pc = "saveSoil"]
    /\ UNCHANGED <<setupVars, envVars, fsVars, dhtQueue, msgQueue, nRecv, taskVars, heap>>

\* a call that stays in saveDataToSD until the file can be opened
RecvSaveSoilRetry ==
    /\ cb.pc = "saveSoil"
    /\ ~getLocalTime \/ sdReady
    /\ saveDataToSD(0, 0, cb.rec.soil, 0, 0)
    /\ cb' = CbIdle
    /\ UNCHANGED <<setupVars, envVars, queueVars, nRecv, taskVars, heap>>

\* saveDataToSD(0, 0, s.soil, 0, 0) and return
RecvSaveSoil ==
    /\ cb.pc = "saveSoil"
    /\ saveDataToSD(0, 0, cb.rec.soil, 0, 0)
    /\ cb' = CbIdle
    /\ UNCHANGED <<setupVars, envVars, queueVars, nRecv, taskVars, heap>>

\* a put that, on a full queue, writes over the oldest element and returns
RecvSendDhtOverwrite ==
    /\ cb.pc = "sendDht"
    /\ dhtQueue' = IF Len(dhtQueue) < DhtQueueLength
                   THEN Append(dhtQueue, cb.rec)
                   ELSE Append(Tail(dhtQueue), cb.rec)
    /\ cb' = [cb EXCEPT !.pc = "saveDht"]
    /\ UNCHANGED <<setupVars, envVars, fsVars, soilQueue, msgQueue, nRecv, taskVars, heap>>

\* xQueueSend(dhtQueue, &d, portMAX_DELAY) returns
RecvSendDht ==
    /\ cb.pc = "sendDht"
    /\ Len(dhtQueue) < DhtQueueLength
    /\ dhtQueue' = Append(dhtQueue, cb.rec)
    /\ cb' = [cb EXCEPT !.pc = "saveDht"]
    /\ UNCHANGED <<setupVars, envVars, fsVars, soilQueue, msgQueue, nRecv, taskVars, heap>>

\* the callback returns after the put without the saveDataToSD call
RecvSaveDhtSkipped ==
    /\ cb.pc = "saveDht"
    /\ cb' = CbIdle
    /\ UNCHANGED <<setupVars, envVars, fsVars, queueVars, nRecv, taskVars, heap>>

\* a line built from readings the tasks share: the soil field is the last soil
\* record SoilTask received
RecvSaveDhtMixed ==
    /\ cb.pc = "saveDht"
    /\ saveDataToSD(cb.rec.temp, cb.rec.hum,
                    IF soilTask.s = NoRec THEN 0 ELSE soilTask.s.soil,
                    cb.rec.luz, cb.rec.mq5)
    /\ cb' = CbIdle
    /\ UNCHANGED <<setupVars, envVars, queueVars, nRecv, taskVars, heap>>

\* saveDataToSD(d.temp, d.hum, 0, d.luz, d.mq5) and return
RecvSaveDht ==
    /\ cb.pc = "saveDht"
    /\ saveDataToSD(cb.rec.temp, cb.rec.hum, 0, cb.rec.luz, cb.rec.mq5)
    /\ cb' = CbIdle
    /\ UNCHANGED <<setupVars, envVars, queueVars, nRecv, taskVars, heap>>

(***************************************************************************)
(* Heap                                                                    *)
(***************************************************************************)
\* malloc(msg.length() + 1) and msg.toCharArray(buf, msg.length() + 1)
Malloc(h, msg) == Append(h, [text |-> msg, sends |-> 0, frees |-> 0, uaf |-> FALSE])

\* String(recvBuffer) reads block b; bot.sendMessage is attempted once
HeapSend(h, b) ==
    [h EXCEPT ![b] = [@ EXCEPT !.sends = @ + 1, !.uaf = @ \/ (h[b].frees > 0)]]

\* free(b): the block's content is gone
HeapFree(h, b) == [h EXCEPT ![b] = [@ EXCEPT !.frees = @ + 1, !.text = <<>>]]

(***************************************************************************)
(* DHTTask                                                                 *)
(***************************************************************************)
Line(kind, val) == [kind |-> kind, val |-> val]

\* the four tests chained with else: only the first that holds adds its line
DhtMsgElseIf(d) ==
    IF d.temp > TEMP_THRESHOLD THEN <<Line("Alta temperatura", d.temp)>>
    ELSE IF d.hum > HUM_THRESHOLD THEN <<Line("Alta humedad", d.hum)>>
    ELSE IF d.luz > LDR_THRESHOLD THEN <<Line("Luz baja", d.luz)>>
    ELSE IF d.mq5 > MQ5_THRESHOLD THEN <<Line("Posible gas detectado", d.mq5)>>
    ELSE <<>>

\* the String msg DHTTask builds from d
DhtMsg(d) ==
    (IF d.temp > TEMP_THRESHOLD THEN <<Line("Alta temperatura", d.temp)>> ELSE <<>>)
    \o (IF d.hum > HUM_THRESHOLD THEN <<Line("Alta humedad", d.hum)>> ELSE <<>>)
    \o (IF d.luz > LDR_THRESHOLD THEN <<Line("Luz baja", d.luz)>> ELSE <<>>)
    \o (IF d.mq5 > MQ5_THRESHOLD THEN <<Line("Posible gas detectado", d.mq5)>> ELSE <<>>)

\* a receive that hands out the element put last
DHTTaskReceiveLast ==
    /\ dhtTask.pc = "take"
    /\ Len(dhtQueue) > 0
    /\ LET d == dhtQueue[Len(dhtQueue)]
           msg == DhtMsg(d)
       IN  /\ dhtQueue' = SubSeq(dhtQueue, 1, Len(dhtQueue) - 1)
           /\ IF Len(msg) > 0
              THEN /\ heap' = Malloc(heap, msg)
                   /\ dhtTask' = [pc |-> "put", d |-> d, buf |-> Len(heap) + 1]
              ELSE /\ heap' = heap
                   /\ dhtTask' = [pc |-> "take", d |-> d, buf |-> NULL]
    /\ UNCHANGED <<setupVars, envVars, fsVars, soilQueue, msgQueue, cb, nRecv,
                   soilTask, tgTask>>

\* xQueueReceive(dhtQueue, &d, portMAX_DELAY) returns; msg is built and, when
\* it is not empty, copied into a fresh block
DHTTaskReceive ==
    /\ dhtTask.pc = "take"
    /\ Len(dhtQueue) > 0
    /\ LET d == Head(dhtQueue)
           msg == DhtMsg(d)
       IN  /\ dhtQueue' = Tail(dhtQueue)
           /\ IF Len(msg) > 0
              THEN /\ heap' = Malloc(heap, msg)
                   /\ dhtTask' = [pc |-> "put", d |-> d, buf |-> Len(heap) + 1]
              ELSE /\ heap' = heap
                   /\ dhtTask' = [pc |-> "take", d |-> d, buf |-> NULL]
    /\ UNCHANGED <<setupVars, envVars, fsVars, soilQueue, msgQueue, cb, nRecv,
                   soilTask, tgTask>>

\* xQueueSend(msgQueue, &buf, portMAX_DELAY) returns
DHTTaskSend ==
    /\ dhtTask.pc = "put"
    /\ Len(msgQueue) < MsgQueueLength
    /\ msgQueue' = Append(msgQueue, dhtTask.buf)
    /\ dhtTask' = [dhtTask EXCEPT !.pc = "take", !.buf = NULL]
    /\ UNCHANGED <<setupVars, envVars, fsVars, dhtQueue, soilQueue, cb, nRecv,
                   soilTask, tgTask, heap>>

(***************************************************************************)
(* SoilTask                                                                *)
(***************************************************************************)
\* the tests with <= and >=: a value on a threshold raises an alert
SoilMsgInclusive(s) ==
    IF s.soil <= SOIL_THRESHOLD_LOW
    THEN <<Line("Suelo muy seco, Bomba encendida", s.soil)>>
    ELSE IF s.soil >= SOIL_THRESHOLD_HIGH
         THEN <<Line("Suelo demasiado humedo", s.soil)>>
         ELSE <<>>

\* the String msg SoilTask builds from s
SoilMsg(s) ==
    IF s.soil < SOIL_THRESHOLD_LOW
    THEN <<Line("Suelo muy seco, Bomba encendida", s.soil)>>
    ELSE IF s.soil > SOIL_THRESHOLD_HIGH
         THEN <<Line("Suelo demasiado humedo", s.soil)>>
         ELSE <<>>

SoilTaskReceive ==
    /\ soilTask.pc = "take"
    /\ Len(soilQueue) > 0
    /\ LET s == Head(soilQueue)
           msg == SoilMsg(s)
       IN  /\ soilQueue' = Tail(soilQueue)
           /\ IF Len(msg) > 0
              THEN /\ heap' = Malloc(heap, msg)
                   /\ soilTask' = [pc |-> "put", s |-> s, buf |-> Len(heap) + 1]
              ELSE /\ heap' = heap
                   /\ soilTask' = [pc |-> "take", s |-> s, buf |-> NULL]
    /\ UNCHANGED <<setupVars, envVars, fsVars, dhtQueue, msgQueue, cb, nRecv,
                   dhtTask, tgTask>>

SoilTaskSend ==
    /\ soilTask.pc = "put"
    /\ Len(msgQueue) < MsgQueueLength
    /\ msgQueue' = Append(msgQueue, soilTask.buf)
    /\ soilTask' = [soilTask EXCEPT !.pc = "take", !.buf = NULL]
    /\ UNCHANGED <<setupVars, envVars, fsVars, dhtQueue, soilQueue, cb, nRecv,
                   dhtTask, tgTask, heap>>

(***************************************************************************)
(* TelegramTask                                                            *)
(***************************************************************************)
\* a dispatcher that reads the head of msgQueue without removing it (xQueuePeek)
TelegramTaskPeek ==
    /\ tgTask.pc = "take"
    /\ Len(msgQueue) > 0
    /\ tgTask' = [tgTask EXCEPT !.pc = "send", !.recvBuffer = Head(msgQueue)]
    /\ UNCHANGED <<setupVars, envVars, fsVars, queueVars, cb, nRecv,
                   dhtTask, soilTask, heap>>

\* xQueueReceive(msgQueue, &recvBuffer, portMAX_DELAY) returns
TelegramTaskReceive ==
    /\ tgTask.pc = "take"
    /\ Len(msgQueue) > 0
    /\ msgQueue' = Tail(msgQueue)
    /\ tgTask' = [tgTask EXCEPT !.pc = "send", !.recvBuffer = Head(msgQueue)]
    /\ UNCHANGED <<setupVars, envVars, fsVars, dhtQueue, soilQueue, cb, nRecv,
                   dhtTask, soilTask, heap>>

\* a dispatcher that leaves its loop when the delivery failed
AfterSendStop(ok) == IF ok THEN "free" ELSE "none"

\* a dispatcher that tries again when the delivery failed
AfterSendRetry(ok) == IF ok THEN "free" ELSE "send"

\* the position after bot.sendMessage returned ok
AfterSend(ok) == "free"

\* bool ok = bot.sendMessage(CHAT_ID, String(recvBuffer), "")
TelegramTaskSend ==
    /\ tgTask.pc = "send"
    /\ \E ok \in BOOLEAN :
          /\ heap' = HeapSend(heap, tgTask.recvBuffer)
          /\ tgTask' = [tgTask EXCEPT !.pc = AfterSend(ok), !.ok = ok]
    /\ UNCHANGED <<setupVars, envVars, fsVars, queueVars, cb, nRecv, dhtTask, soilTask>>

\* a dispatcher that puts the buffer of a failed delivery back on msgQueue
TelegramTaskFreeRequeue ==
    /\ tgTask.pc = "free"
    /\ IF ~tgTask.ok /\ Len(msgQueue) < MsgQueueLength
       THEN /\ msgQueue' = Append(msgQueue, tgTask.recvBuffer)
            /\ heap' = heap
       ELSE /\ msgQueue' = msgQueue
            /\ heap' = HeapFree(heap, tgTask.recvBuffer)
    /\ tgTask' = [tgTask EXCEPT !.pc = "take"]
    /\ UNCHANGED <<setupVars, envVars, fsVars, dhtQueue, soilQueue, cb, nRecv, dhtTask, soilTask>>

\* free(recvBuffer)
TelegramTaskFree ==
    /\ tgTask.pc = "free"
    /\ heap' = HeapFree(heap, tgTask.recvBuffer)
    /\ tgTask' = [tgTask EXCEPT !.pc = "take"]
    /\ UNCHANGED <<setupVars, envVars, fsVars, queueVars, cb, nRecv, dhtTask, soilTask>>

(***************************************************************************)
(* setup()                                                                 *)
(***************************************************************************)
\* while (WiFi.status() != WL_CONNECTED) delay(500) ends
SetupWifi ==
    /\ setupPc = "wifi"
    /\ setupPc' = "ntp"
    /\ UNCHANGED <<cbRegistered, queuesCreated, envVars, fsVars, queueVars, cb, nRecv,
                   taskVars, heap>>

\* configTime(...); getLocalTime(&timeinfo) succeeds or not
SetupNtp ==
    /\ setupPc = "ntp"
    /\ \E ok \in BOOLEAN : timeSynced' = ok
    /\ setupPc' = "sd"
    /\ UNCHANGED <<cbRegistered, queuesCreated, clock, sdReady, nodeVars, fsVars, queueVars, cb,
                   nRecv, taskVars, heap>>

\* a setup() that returns when the card cannot be mounted
SetupSdReturnOnFail ==
    /\ setupPc = "sd"
    /\ \E ok \in BOOLEAN : sdReady' = ok /\ setupPc' = IF ok THEN "queues" ELSE "failed"
    /\ UNCHANGED <<cbRegistered, queuesCreated, timeSynced, clock, nodeVars, fsVars, queueVars, cb,
                   nRecv, taskVars, heap>>

\* SD_MMC.begin() succeeds or not
SetupSd ==
    /\ setupPc = "sd"
    /\ \E ok \in BOOLEAN : sdReady' = ok
    /\ setupPc' = "queues"
    /\ UNCHANGED <<cbRegistered, queuesCreated, timeSynced, clock, nodeVars, fsVars, queueVars, cb,
                   nRecv, taskVars, heap>>

\* the three xQueueCreate(5, ...)
SetupQueues ==
    /\ setupPc = "queues"
    /\ queuesCreated' = TRUE
    /\ dhtQueue' = <<>> /\ soilQueue' = <<>> /\ msgQueue' = <<>>
    /\ setupPc' = "tasks"
    /\ UNCHANGED <<cbRegistered, envVars, fsVars, cb, nRecv, taskVars, heap>>

\* the three xTaskCreate(...)
SetupTasks ==
    /\ setupPc = "tasks"
    /\ dhtTask' = [dhtTask EXCEPT !.pc = "take"]
    /\ soilTask' = [soilTask EXCEPT !.pc = "take"]
    /\ tgTask' = [tgTask EXCEPT !.pc = "take"]
    /\ setupPc' = "espnow"
    /\ UNCHANGED <<cbRegistered, queuesCreated, envVars, fsVars, queueVars, cb, nRecv, heap>>

\* the error branch without its return: the callback is registered all the same
SetupEspNowNoReturn ==
    /\ setupPc = "espnow"
    /\ \E ok \in BOOLEAN :
          /\ cbRegistered' = TRUE
          /\ setupPc' = IF ok THEN "done" ELSE "failed"
    /\ UNCHANGED <<queuesCreated, envVars, fsVars, queueVars, cb, nRecv, taskVars, heap>>

\* esp_now_init() and, when it is ESP_OK, esp_now_register_recv_cb(OnDataRecv)
SetupEspNow ==
    /\ setupPc = "espnow"
    /\ \E ok \in BOOLEAN :
          IF ok
          THEN cbRegistered' = TRUE /\ setupPc' = "done"
          ELSE cbRegistered' = cbRegistered /\ setupPc' = "failed"
    /\ UNCHANGED <<queuesCreated, envVars, fsVars, queueVars, cb, nRecv, taskVars, heap>>

Setup == SetupWifi \/ SetupNtp \/ SetupSd \/ SetupQueues \/ SetupTasks \/ SetupEspNow

(***************************************************************************)
(* The soil sender node: setup(), tareaHumedad, OnDataSent                 *)
(***************************************************************************)
\* C integer division: the quotient is cut towards zero
CDiv(a, b) ==
    IF (a >= 0) = (b > 0)
    THEN (IF a >= 0 THEN a ELSE -a) \div (IF b > 0 THEN b ELSE -b)
    ELSE -((IF a >= 0 THEN a ELSE -a) \div (IF b > 0 THEN b ELSE -b))

\* map(x, in_min, in_max, out_min, out_max)
ArduinoMap(x, in_min, in_max, out_min, out_max) ==
    CDiv((x - in_min) * (out_max - out_min), in_max - in_min) + out_min

\* constrain(x, lo, hi)
Constrain(x, lo, hi) == IF x < lo THEN lo ELSE IF x > hi THEN hi ELSE x

\* pct as tareaHumedad computes it from the ADC reading
PctOf(raw) == Constrain(ArduinoMap(raw, VALOR_SECO, VALOR_MOJADO, 0, 100), 0, 100)

\* ADC readings: the ends of the range, the calibration points and the two
\* readings on either side of the pump threshold
RawReadings == {0, VALOR_MOJADO, 2173, 2174, VALOR_SECO, 4095}

\* a node the receiver only knows by its packets
SoilNodeUnseen ==
    [pc |-> "unseen", pct |-> 0, res |-> FALSE, envioCompleto |-> FALSE,
     pending |-> FALSE, waited |-> 0, relay |-> FALSE, pumped |-> FALSE]

\* reset or wake-up from deep sleep: setup() starts, the relay pin is driven to
\* its inactive level
SoilNodeBoot == [SoilNodeUnseen EXCEPT !.pc = "init"]

\* esp_now_init(): on failure setup() returns and the task is never created
SoilSetupInit ==
    /\ soilNode.pc = "init"
    /\ \E ok \in BOOLEAN : soilNode' = [soilNode EXCEPT !.pc = IF ok THEN "peer" ELSE "halt"]
    /\ UNCHANGED <<recvVars, dhtNode>>

\* esp_now_register_send_cb, esp_now_add_peer (on failure setup() returns) and
\* xTaskCreatePinnedToCore(tareaHumedad, ...)
SoilSetupPeer ==
    /\ soilNode.pc = "peer"
    /\ \E ok \in BOOLEAN : soilNode' = [soilNode EXCEPT !.pc = IF ok THEN "read" ELSE "halt"]
    /\ UNCHANGED <<recvVars, dhtNode>>

\* raw = analogRead(SOIL_PIN); pct = constrain(map(...), 0, 100)
TareaRead ==
    /\ soilNode.pc = "read"
    /\ \E raw \in RawReadings : soilNode' = [soilNode EXCEPT !.pc = "send", !.pct = PctOf(raw)]
    /\ UNCHANGED <<recvVars, dhtNode>>

\* sensorSend.soil = pct; envioCompleto = false; res = esp_now_send(...);
\* t0 = millis(). A packet the transport took is confirmed later, or never
TareaSend ==
    /\ soilNode.pc = "send"
    /\ \E res \in BOOLEAN :
          soilNode' = [soilNode EXCEPT !.pc = "wait", !.res = res, !.envioCompleto = FALSE,
                                       !.pending = res, !.waited = 0]
    /\ UNCHANGED <<recvVars, dhtNode>>

\* the transport calls OnDataSent: envioCompleto = true
SoilOnDataSent ==
    /\ soilNode.pending
    /\ soilNode.pc \in {"wait", "pump", "pumping", "presleep"}
    /\ soilNode' = [soilNode EXCEPT !.envioCompleto = TRUE, !.pending = FALSE]
    /\ UNCHANGED <<recvVars, dhtNode>>

\* a wait that does not look at the time
TareaWaitNoTimeout ==
    /\ soilNode.pc = "wait"
    /\ IF ~soilNode.envioCompleto
       THEN soilNode' = [soilNode EXCEPT !.waited = @ + ConfirmPollMs]
       ELSE soilNode' = [soilNode EXCEPT !.pc = "pump"]
    /\ UNCHANGED <<recvVars, dhtNode>>

\* while (!envioCompleto && millis() - t0 < 500) vTaskDelay(pdMS_TO_TICKS(10)):
\* one test of the condition, and the delay when it holds
TareaWait ==
    /\ soilNode.pc = "wait"
    /\ IF ~soilNode.envioCompleto /\ soilNode.waited < ConfirmTimeoutMs
       THEN soilNode' = [soilNode EXCEPT !.waited = @ + ConfirmPollMs]
       ELSE soilNode' = [soilNode EXCEPT !.pc = "pump"]
    /\ UNCHANGED <<recvVars, dhtNode>>

\* the pump test with <= for <
TareaPumpInclusive ==
    /\ soilNode.pc = "pump"
    /\ IF soilNode.pct <= UMBRAL_HUMEDAD
       THEN soilNode' = [soilNode EXCEPT !.pc = "pumping", !.relay = TRUE, !.pumped = TRUE]
       ELSE soilNode' = [soilNode EXCEPT !.pc = "presleep"]
    /\ UNCHANGED <<recvVars, dhtNode>>

\* if (pct < UMBRAL_HUMEDAD) digitalWrite(RELAY_PIN, HIGH)
TareaPump ==
    /\ soilNode.pc = "pump"
    /\ IF soilNode.pct < UMBRAL_HUMEDAD
       THEN soilNode' = [soilNode EXCEPT !.pc = "pumping", !.relay = TRUE, !.pumped = TRUE]
       ELSE soilNode' = [soilNode EXCEPT !.pc = "presleep"]
    /\ UNCHANGED <<recvVars, dhtNode>>

\* vTaskDelay(pdMS_TO_TICKS(2000)) ends; digitalWrite(RELAY_PIN, LOW)
TareaPumpOff ==
    /\ soilNode.pc = "pumping"
    /\ soilNode' = [soilNode EXCEPT !.pc = "presleep", !.relay = FALSE]
    /\ UNCHANGED <<recvVars, dhtNode>>

\* vTaskDelay(pdMS_TO_TICKS(100)); esp_deep_sleep_start()
TareaSleep ==
    /\ soilNode.pc = "presleep"
    /\ soilNode' = [soilNode EXCEPT !.pc = "sleep", !.pending = FALSE]
    /\ UNCHANGED <<recvVars, dhtNode>>

\* the timer wakes the node after 30 s: the chip resets and setup() runs again
SoilWake ==
    /\ soilNode.pc = "sleep"
    /\ soilNode' = SoilNodeBoot
    /\ UNCHANGED <<recvVars, dhtNode>>

SoilNodeStep ==
    \/ SoilSetupInit \/ SoilSetupPeer \/ TareaRead \/ TareaSend \/ TareaWait
    \/ TareaPump \/ TareaPumpOff \/ TareaSleep

(***************************************************************************)
(* The unified sender node: setup(), OnDataSent                            *)
(***************************************************************************)
DhtNodeUnseen ==
    [pc |-> "unseen", sent |-> FALSE, res |-> FALSE, confirmed |-> FALSE,
     pending |-> FALSE, waited |-> 0]

DhtNodeBoot == [DhtNodeUnseen EXCEPT !.pc = "init"]

\* esp_now_init(): on failure while (true) delay(1000)
DhtSetupInit ==
    /\ dhtNode.pc = "init"
    /\ \E ok \in BOOLEAN : dhtNode' = [dhtNode EXCEPT !.pc = IF ok THEN "peer" ELSE "halt"]
    /\ UNCHANGED <<recvVars, soilNode>>

\* esp_now_register_send_cb and esp_now_add_peer: on failure while (true) delay(1000)
DhtSetupPeer ==
    /\ dhtNode.pc = "peer"
    /\ \E ok \in BOOLEAN : dhtNode' = [dhtNode EXCEPT !.pc = IF ok THEN "read" ELSE "halt"]
    /\ UNCHANGED <<recvVars, soilNode>>

\* the sensors are read; when the DHT22 gave a number for both values, the
\* record is handed to esp_now_send, whose result is only printed
DhtSetupReadSend ==
    /\ dhtNode.pc = "read"
    /\ \E nan \in BOOLEAN, res \in BOOLEAN :
          dhtNode' = [dhtNode EXCEPT !.pc = "delay", !.sent = ~nan, !.res = ~nan /\ res,
                                     !.pending = ~nan /\ res]
    /\ UNCHANGED <<recvVars, soilNode>>

\* the transport calls OnDataSent, which prints the status
DhtOnDataSent ==
    /\ dhtNode.pending
    /\ dhtNode.pc = "delay"
    /\ dhtNode' = [dhtNode EXCEPT !.confirmed = TRUE, !.pending = FALSE]
    /\ UNCHANGED <<recvVars, soilNode>>

\* delay(100); esp_deep_sleep(30 * 1000000)
DhtSetupSleep ==
    /\ dhtNode.pc = "delay"
    /\ dhtNode' = [dhtNode EXCEPT !.pc = "sleep", !.waited = SendDelayMs, !.pending = FALSE]
    /\ UNCHANGED <<recvVars, soilNode>>

\* the timer wakes the node after 30 s: the chip resets and setup() runs again
DhtWake ==
    /\ dhtNode.pc = "sleep"
    /\ dhtNode' = DhtNodeBoot
    /\ UNCHANGED <<recvVars, soilNode>>

DhtNodeStep == DhtSetupInit \/ DhtSetupPeer \/ DhtSetupReadSend \/ DhtSetupSleep

(***************************************************************************)
(* Environment: SNTP, the wall clock, the SD card                          *)
(***************************************************************************)
\* the SNTP client started by configTime gets the time
SntpSync ==
    /\ setupPc \notin {"wifi", "ntp"}
    /\ ~timeSynced
    /\ timeSynced' = TRUE
    /\ UNCHANGED <<setupVars, clock, sdReady, nodeVars, fsVars, queueVars, cb, nRecv, taskVars, heap>>

\* an hour passes
Tick ==
    /\ clock < LastHour
    /\ clock' = clock + 1
    /\ UNCHANGED <<setupVars, timeSynced, sdReady, nodeVars, fsVars, queueVars, cb, nRecv, taskVars, heap>>

\* the card stops answering
CardFail ==
    /\ sdReady
    /\ sdReady' = FALSE
    /\ UNCHANGED <<setupVars, timeSynced, clock, nodeVars, fsVars, queueVars, cb, nRecv, taskVars, heap>>

Environment == SntpSync \/ Tick \/ CardFail

(***************************************************************************)
(* Specification: the node from power-on                                   *)
(***************************************************************************)
InitReceiver ==
    /\ setupPc = "wifi"
    /\ cbRegistered = FALSE
    /\ queuesCreated = FALSE
    /\ timeSynced = FALSE
    /\ clock = FirstHour
    /\ sdReady = FALSE
    /\ onAir = Nodes
    /\ dirs = {}
    /\ files = <<>>
    /\ saveLog = [n |-> 0, args |-> <<>>]
    /\ dhtQueue = <<>> /\ soilQueue = <<>> /\ msgQueue = <<>>
    /\ cb = CbIdle
    /\ nRecv = 0
    /\ dhtTask = [pc |-> "none", d |-> NoRec, buf |-> NULL]
    /\ soilTask = [pc |-> "none", s |-> NoRec, buf |-> NULL]
    /\ tgTask = [pc |-> "none", recvBuffer |-> NULL, ok |-> FALSE]
    /\ heap = <<>>

\* the receiver is switched on; of the sensor nodes only their packets are seen
Init == InitReceiver /\ soilNode = SoilNodeUnseen /\ dhtNode = DhtNodeUnseen

Callback == RecvSendSoil \/ RecvSaveSoil \/ RecvSendDht \/ RecvSaveDht

Tasks ==
    \/ DHTTaskReceive \/ DHTTaskSend
    \/ SoilTaskReceive \/ SoilTaskSend
    \/ TelegramTaskReceive \/ TelegramTaskSend \/ TelegramTaskFree

Next == Setup \/ Deliver(Packets, MaxRecv) \/ Callback \/ Tasks \/ Environment

Spec == Init /\ [][Next]_vars

(***************************************************************************)
(* Specifications of the steady state: setup() has returned, the           *)
(* environment does not change any more.                                   *)
(***************************************************************************)
SteadyEnv(synced, air, card) ==
    /\ setupPc = "done"
    /\ cbRegistered = TRUE
    /\ queuesCreated = TRUE
    /\ timeSynced = synced
    /\ clock = FirstHour
    /\ sdReady = card
    /\ onAir = air
    /\ dirs = {}
    /\ files = <<>>
    /\ saveLog = [n |-> 0, args |-> <<>>]
    /\ dhtQueue = <<>> /\ soilQueue = <<>> /\ msgQueue = <<>>
    /\ cb = CbIdle
    /\ nRecv = 0
    /\ dhtTask = [pc |-> "take", d |-> NoRec, buf |-> NULL]
    /\ soilTask = [pc |-> "take", s |-> NoRec, buf |-> NULL]
    /\ tgTask = [pc |-> "take", recvBuffer |-> NULL, ok |-> FALSE]
    /\ heap = <<>>
    /\ soilNode = SoilNodeUnseen /\ dhtNode = DhtNodeUnseen

\* the card is mounted
Steady(synced, air) == SteadyEnv(synced, air, TRUE)

\* setup() succeeded in every step
InitReady == Steady(TRUE, Nodes)

\* every sample at and around the thresholds, few packets
NextEval == Deliver(WidePackets, MaxEvalRecv) \/ Callback \/ Tasks

EvalSpec == InitReady /\ [][NextEval]_vars

\* setup() succeeded but for the time: getLocalTime() fails and SNTP never answers
InitLoad == Steady(FALSE, {unifiedSenderMAC, soilSenderMAC})

\* enough alerting packets to fill a queue and block the next put
NextLoad == Deliver(LoadPackets, MaxLoadRecv) \/ Callback \/ Tasks

LoadSpec == InitLoad /\ [][NextLoad]_vars

\* one packet more than fills a queue and blocks the next put: a packet of the
\* other node is still to come while the callback waits
NextStall == Deliver(LoadPackets, MaxStallRecv) \/ Callback \/ Tasks

StallSpec == InitLoad /\ [][NextStall]_vars

\* as InitLoad, with one of the two sensor nodes switched on
InitOneNode == \E m \in {unifiedSenderMAC, soilSenderMAC} : Steady(FALSE, {m})

\* FreeRTOS runs every ready task of equal priority in turn, and the radio task
\* that runs the callback has a higher priority: a step that stays possible is taken
Fairness ==
    /\ WF_vars(RecvSendSoil) /\ WF_vars(RecvSaveSoil)
    /\ WF_vars(RecvSendDht) /\ WF_vars(RecvSaveDht)
    /\ WF_vars(DHTTaskReceive) /\ WF_vars(DHTTaskSend)
    /\ WF_vars(SoilTaskReceive) /\ WF_vars(SoilTaskSend)
    /\ WF_vars(TelegramTaskReceive) /\ WF_vars(TelegramTaskSend)
    /\ WF_vars(TelegramTaskFree)

FairLoadSpec == InitOneNode /\ [][NextLoad]_vars /\ Fairness

\* power-on, alerting packets of both nodes, a card that may fail at the mount
\* or later
NextFair == Setup \/ Deliver(LoadPackets, MaxRecv) \/ Callback \/ Tasks \/ CardFail

\* every program step scheduled fairly; setup() and the card are left free (the
\* WiFi loop may spin forever)
FairSpec == Init /\ [][NextFair]_vars /\ Fairness

\* one sensor node switched on; the time was or was not obtained and the card
\* was or was not mounted, for good
InitAnyEnv ==
    \E m \in {unifiedSenderMAC, soilSenderMAC} :
        \E synced \in BOOLEAN, card \in BOOLEAN : SteadyEnv(synced, {m}, card)

FairEnvSpec == InitAnyEnv /\ [][NextLoad]_vars /\ Fairness

(***************************************************************************)
(* The two sensor nodes on their own: the receiver is left switched off.   *)
(***************************************************************************)
InitNodes == InitReceiver /\ soilNode = SoilNodeBoot /\ dhtNode = DhtNodeBoot

NextNodes ==
    \/ SoilNodeStep \/ SoilOnDataSent \/ SoilWake
    \/ DhtNodeStep \/ DhtOnDataSent \/ DhtWake

\* a node that is awake runs: its task and its setup() are the only code on it.
\* The confirmation and the wake-up timer are the surroundings' and are left free
NodeFairness == WF_vars(SoilNodeStep) /\ WF_vars(DhtNodeStep)

NodeSpec == InitNodes /\ [][NextNodes]_vars /\ NodeFairness

(***************************************************************************)
(* Properties                                                              *)
(***************************************************************************)
Registered(pkt) == pkt.src_addr \in {soilSenderMAC, unifiedSenderMAC}
SchemaSize(mac) == IF mac = soilSenderMAC THEN 4 ELSE 16
WellFormed(pkt) == Registered(pkt) /\ pkt.len = SchemaSize(pkt.src_addr)

\* q2 is q with nothing put on it (the consumer may have taken its head)
NothingPut(q, q2) == q2 = q \/ (q # <<>> /\ q2 = Tail(q))

\* C1: a call of OnDataRecv with a registered sender and a payload of that
\* sender's schema size decodes the record, puts it on the queue of the
\* sender's class exactly once (the callback goes from the put to the save and
\* back to idle, never to a second put) and puts nothing on the other queue.
C1_Step ==
    /\ \A pkt \in AllPackets :
          OnDataRecv(pkt) /\ WellFormed(pkt) =>
              IF pkt.src_addr = soilSenderMAC
              THEN cb' = [pc |-> "sendSoil", rec |-> [soil |-> pkt.data[1]]]
              ELSE cb' = [pc |-> "sendDht",
                          rec |-> [temp |-> pkt.data[1], hum |-> pkt.data[2],
                                   luz |-> pkt.data[3], mq5 |-> pkt.data[4]]]
    /\ cb.pc = "sendSoil" =>
          /\ NothingPut(dhtQueue, dhtQueue')
          /\ \/ cb' = cb /\ NothingPut(soilQueue, soilQueue')
             \/ cb' = [cb EXCEPT !.pc = "saveSoil"] /\ soilQueue' = Append(soilQueue, cb.rec)
    /\ cb.pc = "sendDht" =>
          /\ NothingPut(soilQueue, soilQueue')
          /\ \/ cb' = cb /\ NothingPut(dhtQueue, dhtQueue')
             \/ cb' = [cb EXCEPT !.pc = "saveDht"] /\ dhtQueue' = Append(dhtQueue, cb.rec)
    /\ cb.pc \in {"saveSoil", "saveDht"} =>
          /\ NothingPut(soilQueue, soilQueue') /\ NothingPut(dhtQueue, dhtQueue')
          /\ cb' = cb \/ cb' = CbIdle
    /\ cb.pc = "idle" =>
          NothingPut(soilQueue, soilQueue') /\ NothingPut(dhtQueue, dhtQueue')

C1_RoutedToOwnQueueOnce == [][C1_Step]_vars

\* a unified-sender record has just been put on dhtQueue, soilQueue holds nothing
C1_Witness ==
    /\ cb.pc = "saveDht"
    /\ dhtQueue # <<>> /\ dhtQueue[Len(dhtQueue)] = cb.rec
    /\ cb.rec = [temp |-> 31, hum |-> 50, luz |-> 0, mq5 |-> 0]
    /\ soilQueue = <<>> /\ soilTask.s = NoRec

\* C2: a call of OnDataRecv with an unregistered sender, or with a registered
\* sender and a payload length that is not its schema size, changes no queue,
\* makes no saveDataToSD call, writes nothing, and returns: the callback is
\* idle and registered again for the next packet.
C2_Step ==
    \A pkt \in AllPackets :
        OnDataRecv(pkt) /\ ~WellFormed(pkt) =>
            /\ dhtQueue' = dhtQueue /\ soilQueue' = soilQueue /\ msgQueue' = msgQueue
            /\ saveLog' = saveLog /\ files' = files /\ dirs' = dirs
            /\ cb' = CbIdle /\ cbRegistered'

C2_MalformedDropped == [][C2_Step]_vars

\* the first packet was dropped without a trace and the second one, a valid soil
\* packet, is being processed
C2_Witness ==
    /\ nRecv = 2 /\ cb.pc = "saveSoil"
    /\ soilQueue = <<cb.rec>> /\ dhtQueue = <<>> /\ msgQueue = <<>>
    /\ saveLog.n = 0 /\ heap = <<>>
    /\ dhtTask.d = NoRec /\ soilTask.s = NoRec

\* the blocks TelegramTask has dequeued so far
Held(b) ==
    \/ dhtTask.pc = "put" /\ dhtTask.buf = b
    \/ soilTask.pc = "put" /\ soilTask.buf = b
InQueue(b) == \E i \in 1..Len(msgQueue) : msgQueue[i] = b
Dequeued(b) == b \in 1..Len(heap) /\ ~Held(b) /\ ~InQueue(b)

\* C3: every block TelegramTask dequeued gets exactly one delivery attempt and
\* is then freed exactly once, whatever the attempt returned: while the task is
\* at the send the block is unsent and unfreed, at the free it has been sent
\* once, and once the task has moved on it has been sent once and freed once;
\* no block is sent twice, freed twice, or read after it was freed.
C3_OneAttemptOneRelease ==
    \A b \in 1..Len(heap) :
        /\ heap[b].sends <= 1 /\ heap[b].frees <= 1 /\ ~heap[b].uaf
        /\ ~Dequeued(b) => heap[b].sends = 0 /\ heap[b].frees = 0
        /\ Dequeued(b) =>
              IF tgTask.recvBuffer = b /\ tgTask.pc = "send"
              THEN heap[b].sends = 0 /\ heap[b].frees = 0
              ELSE IF tgTask.recvBuffer = b /\ tgTask.pc = "free"
              THEN heap[b].sends = 1 /\ heap[b].frees = 0
              ELSE heap[b].sends = 1 /\ heap[b].frees = 1

\* a block whose delivery failed has been freed, after an earlier block was
\* delivered or not and freed
C3_Witness ==
    /\ tgTask.pc = "take" /\ tgTask.ok = FALSE
    /\ tgTask.recvBuffer = 2
    /\ heap[1].sends = 1 /\ heap[1].frees = 1
    /\ heap[2].sends = 1 /\ heap[2].frees = 1

\* how many owners hold block b: the evaluator that composed it and has not
\* finished its put, the slots of msgQueue, the dispatcher between its dequeue
\* and its free
Holders(b) ==
    (IF dhtTask.pc = "put" /\ dhtTask.buf = b THEN 1 ELSE 0)
    + (IF soilTask.pc = "put" /\ soilTask.buf = b THEN 1 ELSE 0)
    + Cardinality({i \in 1..Len(msgQueue) : msgQueue[i] = b})
    + (IF tgTask.pc \in {"send", "free"} /\ tgTask.recvBuffer = b THEN 1 ELSE 0)

Allocated(b) == b \in 1..Len(heap)

\* C4: every block that is allocated and not yet freed has exactly one owner
\* (its evaluator, msgQueue, or the dispatcher); a freed block has none, was
\* freed once and was never read after its release; every pointer an owner
\* holds is an allocated block.
C4_SingleOwner ==
    /\ \A b \in 1..Len(heap) :
          IF heap[b].frees = 0
          THEN Holders(b) = 1
          ELSE Holders(b) = 0 /\ heap[b].frees = 1 /\ ~heap[b].uaf
    /\ \A i \in 1..Len(msgQueue) : Allocated(msgQueue[i])
    /\ dhtTask.pc = "put" => Allocated(dhtTask.buf)
    /\ soilTask.pc = "put" => Allocated(soilTask.buf)
    /\ tgTask.pc \in {"send", "free"} => Allocated(tgTask.recvBuffer)

\* one block is freed, one is with the dispatcher, two are in msgQueue and each
\* evaluator holds one it has not put yet
C4_Witness ==
    /\ dhtTask.pc = "put" /\ soilTask.pc = "put"
    /\ Len(msgQueue) = 2
    /\ tgTask.pc = "send"
    /\ \E b \in 1..Len(heap) : heap[b].frees = 1

\* C5: no queue ever holds more than 5 elements; while a queue holds 5 the put
\* waiting on it does not return and the queue only changes by its consumer
\* taking the head; a put that returns appended its element to a queue of fewer
\* than 5 and left the others in place; and a put waiting on a full queue
\* returns in the end.
C5_Bounded == Len(dhtQueue) <= 5 /\ Len(soilQueue) <= 5 /\ Len(msgQueue) <= 5

PutOrTake(q, q2) ==
    \/ NothingPut(q, q2)
    \/ Len(q) < 5 /\ Len(q2) = Len(q) + 1 /\ SubSeq(q2, 1, Len(q)) = q

C5_Step ==
    /\ PutOrTake(dhtQueue, dhtQueue')
    /\ PutOrTake(soilQueue, soilQueue')
    /\ PutOrTake(msgQueue, msgQueue')
    /\ Len(dhtQueue) = 5 /\ cb.pc = "sendDht" => cb' = cb
    /\ Len(soilQueue) = 5 /\ cb.pc = "sendSoil" => cb' = cb
    /\ Len(msgQueue) = 5 /\ dhtTask.pc = "put" => dhtTask' = dhtTask
    /\ Len(msgQueue) = 5 /\ soilTask.pc = "put" => soilTask' = soilTask

C5_BoundedBlockingPut ==
    /\ []C5_Bounded
    /\ [][C5_Step]_vars
    /\ (cb.pc = "sendDht" /\ Len(dhtQueue) = 5) ~> (cb.pc = "saveDht")
    /\ (cb.pc = "sendSoil" /\ Len(soilQueue) = 5) ~> (cb.pc = "saveSoil")
    /\ (dhtTask.pc = "put" /\ Len(msgQueue) = 5) ~> (dhtTask.pc = "take")
    /\ (soilTask.pc = "put" /\ Len(msgQueue) = 5) ~> (soilTask.pc = "take")

\* the callback waits in its put on a full dhtQueue
C5_Witness ==
    /\ cb.pc = "sendDht" /\ Len(dhtQueue) = 5

\* the step in which the callback makes its saveDataToSD call and returns
PersistStep == cb.pc \in {"saveSoil", "saveDht"} /\ cb'.pc = "idle"

\* the values that call hands to saveDataToSD
CallLine ==
    IF cb.pc = "saveSoil"
    THEN <<0, 0, cb.rec.soil, 0, 0>>
    ELSE <<cb.rec.temp, cb.rec.hum, 0, cb.rec.luz, cb.rec.mq5>>

DhtDequeue == Len(dhtQueue') = Len(dhtQueue) - 1
SoilDequeue == Len(soilQueue') = Len(soilQueue) - 1

\* C6 as stated: the step in which an evaluator task dequeues a record issues a
\* persistence request (a saveDataToSD call) for it.
C6_EvaluatorPersists ==
    [][DhtDequeue \/ SoilDequeue => saveLog'.n = saveLog.n + 1]_vars

\* C6 as amended: the persistence request for a record is issued by the receive
\* callback, once, right after its put on the class queue returned and before
\* the callback returns, with the values of that record, whether or not a
\* threshold fires; the evaluator tasks issue none.
C6_Step ==
    /\ saveLog' # saveLog =>
          /\ PersistStep
          /\ saveLog' = [n |-> saveLog.n + 1, args |-> CallLine]
          /\ UNCHANGED <<dhtTask, soilTask, tgTask, dhtQueue, soilQueue, msgQueue>>
    /\ cb.pc = "sendSoil" /\ cb' # cb =>
          cb' = [cb EXCEPT !.pc = "saveSoil"] /\ soilQueue' = Append(soilQueue, cb.rec)
    /\ cb.pc = "sendDht" /\ cb' # cb =>
          cb' = [cb EXCEPT !.pc = "saveDht"] /\ dhtQueue' = Append(dhtQueue, cb.rec)
    /\ cb.pc \in {"saveSoil", "saveDht"} /\ cb' # cb =>
          cb' = CbIdle /\ saveLog' = [n |-> saveLog.n + 1, args |-> CallLine]
    /\ DhtDequeue \/ SoilDequeue => saveLog' = saveLog

C6_CallbackPersists == [][C6_Step]_vars

\* a record on which no threshold fires was persisted by the callback while it
\* still waits in dhtQueue: DHTTask has not dequeued anything
C6_Witness ==
    /\ cb.pc = "idle"
    /\ saveLog = [n |-> 1, args |-> <<30, 80, 0, 700, 1500>>]
    /\ dhtQueue = <<[temp |-> 30, hum |-> 80, luz |-> 700, mq5 |-> 1500]>>
    /\ dhtTask.d = NoRec
    /\ \E p \in DOMAIN files : files[p] = <<saveLog.args>>

DhtKinds == <<"Alta temperatura", "Alta humedad", "Luz baja", "Posible gas detectado">>

\* the predicate of the i-th condition line and the value the line shows
DhtFires(i, d) ==
    CASE i = 1 -> d.temp > 30
      [] i = 2 -> d.hum > 80
      [] i = 3 -> d.luz > 700
      [] i = 4 -> d.mq5 > 1500

DhtShown(i, d) ==
    CASE i = 1 -> d.temp
      [] i = 2 -> d.hum
      [] i = 3 -> d.luz
      [] i = 4 -> d.mq5

\* text holds, for the sample d, the line of every predicate that holds and of
\* no other, each once, in the order temperature, humidity, light, gas
DhtTextFor(text, d) ==
    /\ \A i \in 1..4 :
          DhtFires(i, d) <=> \E j \in 1..Len(text) : text[j].kind = DhtKinds[i]
    /\ \A j \in 1..Len(text) :
          \E i \in 1..4 : text[j] = [kind |-> DhtKinds[i], val |-> DhtShown(i, d)]
    /\ \A j, k \in 1..Len(text) :
          j < k => \E a, b \in 1..4 :
                      a < b /\ text[j].kind = DhtKinds[a] /\ text[k].kind = DhtKinds[b]

\* C7: when DHTTask dequeues a sample, the four predicates are evaluated
\* independently: if one holds, exactly one block is allocated, its text has the
\* lines of exactly the predicates that hold, in order, and that block is what
\* the task then puts on msgQueue; if none holds (values on a threshold
\* included) no block is allocated and the task puts nothing on msgQueue.
C7_Step ==
    /\ DhtDequeue =>
          LET d == Head(dhtQueue)
          IN  IF \E i \in 1..4 : DhtFires(i, d)
              THEN /\ Len(heap') = Len(heap) + 1
                   /\ SubSeq(heap', 1, Len(heap)) = heap
                   /\ DhtTextFor(heap'[Len(heap')].text, d)
                   /\ dhtTask' = [pc |-> "put", d |-> d, buf |-> Len(heap')]
                   /\ msgQueue' = msgQueue
              ELSE /\ heap' = heap
                   /\ dhtTask' = [pc |-> "take", d |-> d, buf |-> NULL]
                   /\ msgQueue' = msgQueue
    /\ dhtTask.pc = "put" /\ dhtTask' # dhtTask =>
          /\ msgQueue' = Append(msgQueue, dhtTask.buf)
          /\ dhtTask'.pc = "take"
          /\ heap' = heap
    /\ dhtTask.pc = "take" /\ Len(msgQueue') > Len(msgQueue) =>
          soilTask.pc = "put" /\ msgQueue' = Append(msgQueue, soilTask.buf)

C7_IndependentPredicates == [][C7_Step]_vars

\* temperature and gas fire, humidity and light sit on their thresholds: the
\* block holds the two lines, in that order
C7_Witness ==
    /\ dhtTask.pc = "put"
    /\ dhtTask.d = [temp |-> 31, hum |-> 80, luz |-> 700, mq5 |-> 1501]
    /\ heap[dhtTask.buf].text =
          <<[kind |-> "Alta temperatura", val |-> 31],
            [kind |-> "Posible gas detectado", val |-> 1501]>>

\* C8: when SoilTask dequeues a sample, it composes at most one line: the
\* dry-soil line exactly when moisture < 30, the waterlogged line exactly when
\* moisture > 70, never both; with 30 <= moisture <= 70 no block is allocated
\* and the task puts nothing on msgQueue.
C8_Step ==
    /\ SoilDequeue =>
          LET m == Head(soilQueue).soil
          IN  IF m < 30 \/ m > 70
              THEN /\ Len(heap') = Len(heap) + 1
                   /\ SubSeq(heap', 1, Len(heap)) = heap
                   /\ Len(heap'[Len(heap')].text) = 1
                   /\ heap'[Len(heap')].text[1].val = m
                   /\ m < 30 <=> heap'[Len(heap')].text[1].kind = "Suelo muy seco, Bomba encendida"
                   /\ m > 70 <=> heap'[Len(heap')].text[1].kind = "Suelo demasiado humedo"
                   /\ soilTask' = [pc |-> "put", s |-> [soil |-> m], buf |-> Len(heap')]
                   /\ msgQueue' = msgQueue
              ELSE /\ heap' = heap
                   /\ soilTask' = [pc |-> "take", s |-> [soil |-> m], buf |-> NULL]
                   /\ msgQueue' = msgQueue
    /\ soilTask.pc = "put" /\ soilTask' # soilTask =>
          /\ msgQueue' = Append(msgQueue, soilTask.buf)
          /\ soilTask'.pc = "take"
          /\ heap' = heap
    /\ soilTask.pc = "take" /\ Len(msgQueue') > Len(msgQueue) =>
          dhtTask.pc = "put" /\ msgQueue' = Append(msgQueue, dhtTask.buf)

C8_ExclusiveSoilLines == [][C8_Step]_vars

\* a sample of 71 gave the waterlogged line after a sample of 70 gave none
C8_Witness ==
    /\ soilTask.pc = "put"
    /\ soilTask.s = [soil |-> 71]
    /\ soilTask.buf = 1
    /\ heap = <<[text |-> <<[kind |-> "Suelo demasiado humedo", val |-> 71]>>,
                 sends |-> 0, frees |-> 0, uaf |-> FALSE]>>
    /\ saveLog.n = 2

\* the files after the call appended line to the file at p and touched nothing else
Appended(p, line) ==
    /\ DOMAIN files' = DOMAIN files \cup {p}
    /\ files'[p] = (IF p \in DOMAIN files THEN files[p] ELSE <<>>) \o <<line>>
    /\ \A q \in DOMAIN files : q # p => files'[q] = files[q]

\* the step appends the call's line to /<date>/<hour>/<name> of the current
\* date and hour and creates the two directories when they are missing
PersistsTo(name) ==
    /\ Appended(<<clock \div 24, clock % 24, name>>, CallLine)
    /\ dirs' = dirs \cup {<<clock \div 24>>, <<clock \div 24, clock % 24>>}

\* C9 as stated: a persist call made while time and storage are available
\* appends exactly one line to the file /<date>/<hour>/data.
C9_AppendsToData ==
    [][PersistStep /\ timeSynced /\ sdReady => PersistsTo("data")]_vars

\* C9 as amended: a persist call made while time and storage are available
\* appends exactly one line to the file /<date>/<hour>/data.txt of the current
\* date and hour, after the lines the file already holds, creates the date and
\* hour directories only when they are missing and changes no other file.
C9_AppendsToDataTxt ==
    [][PersistStep /\ timeSynced /\ sdReady => PersistsTo("data.txt")]_vars

\* two calls in the same hour: one file, two lines, in call order (the sample
\* DHTTask took first is the first line)
C9_Witness ==
    /\ cb.pc = "idle" /\ saveLog.n = 2
    /\ dirs = {<<0>>, <<0, 22>>}
    /\ DOMAIN files = {<<0, 22, "data.txt">>}
    /\ files[<<0, 22, "data.txt">>] = <<<<31, 50, 0, 0, 0>>, <<0, 0, 25, 0, 0>>>>

\* some file got one more line, the line given, and nothing else changed
OneLineAdded(line) == \E p \in DOMAIN files' : Appended(p, line)

\* C10 as stated: a persist call without time writes nothing and creates
\* nothing, and the log holds exactly the lines of the calls made while time
\* was available: such a call adds its line, no other step adds one.
C10_Step_Original ==
    IF PersistStep
    THEN IF timeSynced
         THEN OneLineAdded(CallLine)
         ELSE files' = files /\ dirs' = dirs
    ELSE files' = files /\ dirs' = dirs

C10_LogIsTimedCalls == [][C10_Step_Original]_vars

\* C10 as amended: a persist call without time writes nothing and creates
\* nothing, and the log holds exactly the lines of the calls made while time
\* and storage were available: such a call adds the line of its own record,
\* every other call leaves the files as they are, and no other step writes.
C10_Step ==
    IF PersistStep
    THEN IF timeSynced /\ sdReady
         THEN OneLineAdded(CallLine)
         ELSE /\ files' = files
              /\ ~timeSynced => dirs' = dirs
    ELSE files' = files /\ dirs' = dirs

C10_LogIsServedCalls == [][C10_Step]_vars

\* the call for the first sample found no time, the call for the second was
\* served: the log holds the second line alone
C10_Witness ==
    /\ cb.pc = "idle" /\ saveLog = [n |-> 2, args |-> <<0, 0, 25, 0, 0>>]
    /\ dhtTask.d = [temp |-> 31, hum |-> 50, luz |-> 0, mq5 |-> 0]
    /\ sdReady /\ timeSynced
    /\ \E p \in DOMAIN files : DOMAIN files = {p} /\ files[p] = <<<<0, 0, 25, 0, 0>>>>

\* the records the two evaluators can be handed, out of the packets pkts
DhtRecordsOf(pkts) == {DecodeDht(p.data) : p \in {q \in pkts : Route(q) = "dht"}}
SoilRecordsOf(pkts) == {DecodeSoil(p.data) : p \in {q \in pkts : Route(q) = "soil"}}
DhtRecords == DhtRecordsOf(Packets)
SoilRecords == SoilRecordsOf(Packets)

\* C11: a saveDataToSD call made while the card cannot be opened fails alone.
\* The call writes nothing, changes no queue, task or buffer, and returns with
\* the callback registered; the record of that call is still dequeued by its
\* evaluator; an evaluation that composes an alert still reaches the put, and a
\* buffer waiting at the put is still sent once and freed; and the callback
\* comes back to idle, where the next packet is taken.
C11_Step ==
    /\ PersistStep /\ ~sdReady =>
          /\ files' = files /\ dirs' = dirs
          /\ UNCHANGED <<setupVars, queueVars, taskVars, heap>>
          /\ cb' = CbIdle
    /\ ~sdReady /\ dhtTask.pc = "take" /\ dhtTask' # dhtTask /\ DhtMsg(dhtTask'.d) # <<>> =>
          /\ dhtTask'.pc = "put"
          /\ heap'[dhtTask'.buf].text = DhtMsg(dhtTask'.d)
    /\ ~sdReady /\ soilTask.pc = "take" /\ soilTask' # soilTask /\ SoilMsg(soilTask'.s) # <<>> =>
          /\ soilTask'.pc = "put"
          /\ heap'[soilTask'.buf].text = SoilMsg(soilTask'.s)

C11_PersistFailsAlone ==
    /\ [][C11_Step]_vars
    /\ \A r \in DhtRecordsOf(LoadPackets) :
          (~sdReady /\ cb.pc = "saveDht" /\ cb.rec = r) ~> (dhtTask.d = r)
    /\ \A r \in SoilRecordsOf(LoadPackets) :
          (~sdReady /\ cb.pc = "saveSoil" /\ cb.rec = r) ~> (soilTask.s = r)
    /\ \A b \in 1..MaxRecv :
          (~sdReady /\ Held(b)) ~> (Allocated(b) /\ heap[b].sends = 1 /\ heap[b].frees = 1)
    /\ (~sdReady /\ cb.pc \in {"saveSoil", "saveDht"}) ~> (cb.pc = "idle" /\ cbRegistered)

\* the card was never readable: two calls were made and no line was written,
\* yet both records were evaluated and both alerts were sent and freed
C11_Witness ==
    /\ ~sdReady /\ timeSynced
    /\ saveLog.n = 2 /\ \A p \in DOMAIN files : files[p] = <<>>
    /\ dhtTask.d # NoRec /\ soilTask.s # NoRec
    /\ Len(heap) = 2
    /\ \A b \in 1..2 : heap[b].sends = 1 /\ heap[b].frees = 1
    /\ cb.pc = "idle"

\* C12: every queue is first in, first out, with one reader. A class queue
\* changes only by the callback appending the record of the call in progress or
\* by its own evaluator taking the head, which is the record that evaluator then
\* holds; an evaluator starts an evaluation only by such a take, so a record is
\* evaluated once and never by the other evaluator. msgQueue changes only by an
\* evaluator appending the block it holds or by TelegramTask taking the head.
C12_Step ==
    /\ dhtQueue' # dhtQueue =>
          \/ /\ cb.pc = "sendDht" /\ dhtQueue' = Append(dhtQueue, cb.rec)
             /\ UNCHANGED taskVars
          \/ /\ dhtQueue # <<>> /\ dhtQueue' = Tail(dhtQueue)
             /\ dhtTask.pc = "take" /\ dhtTask'.d = Head(dhtQueue)
             /\ UNCHANGED <<soilTask, tgTask, cb>>
    /\ soilQueue' # soilQueue =>
          \/ /\ cb.pc = "sendSoil" /\ soilQueue' = Append(soilQueue, cb.rec)
             /\ UNCHANGED taskVars
          \/ /\ soilQueue # <<>> /\ soilQueue' = Tail(soilQueue)
             /\ soilTask.pc = "take" /\ soilTask'.s = Head(soilQueue)
             /\ UNCHANGED <<dhtTask, tgTask, cb>>
    /\ dhtTask.pc = "take" /\ dhtTask' # dhtTask => dhtQueue # <<>> /\ dhtQueue' = Tail(dhtQueue)
    /\ soilTask.pc = "take" /\ soilTask' # soilTask =>
          soilQueue # <<>> /\ soilQueue' = Tail(soilQueue)
    /\ msgQueue' # msgQueue =>
          \/ /\ dhtTask.pc = "put" /\ msgQueue' = Append(msgQueue, dhtTask.buf)
             /\ dhtTask'.pc = "take" /\ UNCHANGED <<soilTask, tgTask>>
          \/ /\ soilTask.pc = "put" /\ msgQueue' = Append(msgQueue, soilTask.buf)
             /\ soilTask'.pc = "take" /\ UNCHANGED <<dhtTask, tgTask>>
          \/ /\ msgQueue # <<>> /\ msgQueue' = Tail(msgQueue)
             /\ tgTask.pc = "take"
             /\ tgTask' = [tgTask EXCEPT !.pc = "send", !.recvBuffer = Head(msgQueue)]
             /\ UNCHANGED <<dhtTask, soilTask>>

C12_FifoPerQueue == [][C12_Step]_vars

\* two different unified-sender records were received; DHTTask holds the one
\* that came first while the one of the last call is still queued
C12_Witness ==
    /\ nRecv = 2 /\ saveLog.n = 2 /\ cb.pc = "idle"
    /\ saveLog.args = <<30, 80, 0, 700, 1500>>
    /\ dhtQueue = <<[temp |-> 30, hum |-> 80, luz |-> 700, mq5 |-> 1500]>>
    /\ dhtTask.d = [temp |-> 31, hum |-> 50, luz |-> 0, mq5 |-> 0]

\* the first k accepted records were evaluated and their alerts were sent once
\* and freed (every packet of the load alerts)
C13_Served(k) ==
    /\ Len(heap) >= k
    /\ \A b \in 1..k : heap[b].sends = 1 /\ heap[b].frees = 1

\* C13: with every callback and task step scheduled fairly, and every
\* notification and storage call returning, each accepted record is evaluated
\* and its alert buffer is dequeued, attempted once and freed, whether or not
\* the time was obtained, the card is mounted or the delivery succeeds; in the
\* end the queues are empty and the tasks wait on them; and whenever a queue is
\* not empty some task can take a step.
C13_Progress ==
    /\ \A k \in 1..MaxLoadRecv : (nRecv = k) ~> C13_Served(k)
    /\ (nRecv = MaxLoadRecv) ~>
          [](/\ dhtQueue = <<>> /\ soilQueue = <<>> /\ msgQueue = <<>>
             /\ cb.pc = "idle" /\ dhtTask.pc = "take" /\ soilTask.pc = "take"
             /\ tgTask.pc = "take")
    /\ [](dhtQueue # <<>> \/ soilQueue # <<>> \/ msgQueue # <<>> => ENABLED Tasks)

\* no time, no card, the last delivery failed: all the records were served
C13_Witness ==
    /\ ~timeSynced /\ ~sdReady /\ ~tgTask.ok
    /\ nRecv = MaxLoadRecv /\ saveLog.n = MaxLoadRecv
    /\ C13_Served(MaxLoadRecv)
    /\ dhtQueue = <<>> /\ soilQueue = <<>> /\ msgQueue = <<>>

\* C14: while a call of OnDataRecv is in its put, blocked on a full queue or
\* not, no other packet of either node is taken in (the count of calls stands),
\* no saveDataToSD call is made, that of the waiting record included, and
\* nothing is written; the only record that can be enqueued is the waiting one,
\* on its own queue, and on a full queue not even that: a full dhtQueue keeps
\* soil records out of a soilQueue with room, and a full soilQueue does the
\* same to unified-sender records.
C14_Step ==
    /\ cb.pc \in {"sendDht", "sendSoil"} =>
          /\ nRecv' = nRecv
          /\ saveLog' = saveLog /\ files' = files /\ dirs' = dirs
          /\ \A pkt \in AllPackets : ~OnDataRecv(pkt)
    /\ cb.pc = "sendDht" =>
          /\ NothingPut(soilQueue, soilQueue')
          /\ \/ cb' = cb /\ NothingPut(dhtQueue, dhtQueue')
             \/ /\ Len(dhtQueue) < DhtQueueLength
                /\ cb' = [cb EXCEPT !.pc = "saveDht"]
                /\ dhtQueue' = Append(dhtQueue, cb.rec)
    /\ cb.pc = "sendSoil" =>
          /\ NothingPut(dhtQueue, dhtQueue')
          /\ \/ cb' = cb /\ NothingPut(soilQueue, soilQueue')
             \/ /\ Len(soilQueue) < SoilQueueLength
                /\ cb' = [cb EXCEPT !.pc = "saveSoil"]
                /\ soilQueue' = Append(soilQueue, cb.rec)

C14_ReceptionStalls == [][C14_Step]_vars

\* the callback waits on the full dhtQueue with its record unsaved, the soil
\* node is on air, soilQueue is empty and another packet could still come
C14_Witness ==
    /\ cb.pc = "sendDht" /\ Len(dhtQueue) = DhtQueueLength
    /\ soilSenderMAC \in onAir /\ soilQueue = <<>> /\ soilTask.pc = "take"
    /\ nRecv < MaxStallRecv
    /\ saveLog.n = nRecv - 1

\* the execution contexts that are inside an xQueueSend on queue q
Putting(q) ==
    CASE q = "dhtQueue" -> {c \in {"OnDataRecv"} : cb.pc = "sendDht"}
      [] q = "soilQueue" -> {c \in {"OnDataRecv"} : cb.pc = "sendSoil"}
      [] q = "msgQueue" -> {c \in {"DHTTask"} : dhtTask.pc = "put"}
                           \cup {c \in {"SoilTask"} : soilTask.pc = "put"}

\* C15 as stated: on no queue, msgQueue included, are two execution contexts
\* putting at the same time.
C15_OneProducerEach ==
    \A q \in {"dhtQueue", "soilQueue", "msgQueue"} : Cardinality(Putting(q)) <= 1

\* C15 as amended: dhtQueue and soilQueue have one producer, the callback, which
\* is in one put at a time, and one consumer each, the evaluator of the class;
\* msgQueue has one consumer, TelegramTask, and two producers, DHTTask and
\* SoilTask, which may both be in their put at once: an element is added to
\* msgQueue only by a step of one of the two evaluators and removed only by a
\* step of TelegramTask.
C15_Step ==
    /\ Len(dhtQueue') > Len(dhtQueue) =>
          cb.pc = "sendDht" /\ cb' # cb /\ UNCHANGED taskVars
    /\ Len(soilQueue') > Len(soilQueue) =>
          cb.pc = "sendSoil" /\ cb' # cb /\ UNCHANGED taskVars
    /\ Len(dhtQueue') < Len(dhtQueue) =>
          dhtTask.pc = "take" /\ UNCHANGED <<soilTask, tgTask, cb>>
    /\ Len(soilQueue') < Len(soilQueue) =>
          soilTask.pc = "take" /\ UNCHANGED <<dhtTask, tgTask, cb>>
    /\ Len(msgQueue') > Len(msgQueue) =>
          /\ \/ dhtTask.pc = "put" /\ dhtTask' # dhtTask /\ soilTask' = soilTask
             \/ soilTask.pc = "put" /\ soilTask' # soilTask /\ dhtTask' = dhtTask
          /\ UNCHANGED <<tgTask, cb>>
    /\ Len(msgQueue') < Len(msgQueue) =>
          tgTask.pc = "take" /\ tgTask' # tgTask /\ UNCHANGED <<dhtTask, soilTask, cb>>

C15_ProducersAndConsumers ==
    /\ [](/\ Cardinality(Putting("dhtQueue") \cup Putting("soilQueue")) <= 1
          /\ Putting("msgQueue") \subseteq {"DHTTask", "SoilTask"})
    /\ [][C15_Step]_vars

\* DHTTask and SoilTask are both in their put on msgQueue, which has room
C15_Witness ==
    /\ Putting("msgQueue") = {"DHTTask", "SoilTask"}
    /\ dhtTask.buf # soilTask.buf
    /\ Len(msgQueue) < MsgQueueLength

RECURSIVE SumLines(_, _)
SumLines(fs, ps) ==
    IF ps = {} THEN 0
    ELSE LET p == CHOOSE q \in ps : TRUE
         IN  Len(fs[p]) + SumLines(fs, ps \ {p})

\* the number of lines on the card
TotalLines(fs) == SumLines(fs, DOMAIN fs)

\* the lines the records of Spec are written as
RecordLines ==
    {FormatLine(0, 0, r.soil, 0, 0) : r \in SoilRecords}
    \cup {FormatLine(r.temp, r.hum, 0, r.luz, r.mq5) : r \in DhtRecords}

\* C16: saveDataToSD calls do not overlap: all of them are made by the callback,
\* one packet at a time, while the tasks of both classes run in between. Every
\* line on the card is the complete line of one record of one class; a call
\* made with time and card available adds one line, the one of its record, at
\* the end of one file; no other step adds a line, and no step removes or
\* changes a line, in the file written or in any other.
C16_Step ==
    LET ok == PersistStep /\ timeSynced /\ sdReady
    IN  /\ TotalLines(files') = TotalLines(files) + (IF ok THEN 1 ELSE 0)
        /\ \A q \in DOMAIN files :
              /\ q \in DOMAIN files'
              /\ Len(files'[q]) >= Len(files[q])
              /\ SubSeq(files'[q], 1, Len(files[q])) = files[q]
        /\ ok => \E q \in DOMAIN files' : files'[q][Len(files'[q])] = CallLine
        /\ saveLog'.n # saveLog.n => PersistStep /\ saveLog'.n = saveLog.n + 1

C17_Halted ==
    /\ ~cbRegistered /\ queuesCreated
    /\ nRecv = 0 /\ cb = CbIdle /\ saveLog.n = 0
    /\ dhtQueue = <<>> /\ soilQueue = <<>> /\ msgQueue = <<>>
    /\ dhtTask = [pc |-> "take", d |-> NoRec, buf |-> NULL]
    /\ soilTask = [pc |-> "take", s |-> NoRec, buf |-> NULL]
    /\ tgTask.pc = "take" /\ tgTask.recvBuffer = NULL
    /\ heap = <<>>

C17_InitFailureKeepsTasks ==
    /\ [](setupPc = "failed" => C17_Halted)
    /\ [][setupPc = "failed" => setupPc' = "failed"]_vars
    /\ [][setupPc = "espnow" /\ setupPc' = "failed" =>
            UNCHANGED <<cbRegistered, queuesCreated, queueVars, taskVars>>]_vars

\* esp_now_init failed; since then the time was obtained, hours went by and
\* both nodes kept transmitting: nothing was received
C17_Witness ==
    /\ setupPc = "failed" /\ C17_Halted
    /\ timeSynced /\ clock = LastHour /\ onAir = Nodes

TasksCreated == dhtTask.pc # "none" /\ soilTask.pc # "none" /\ tgTask.pc # "none"

\* C19: the callback is registered only when the three queues and the three
\* tasks exist, and a task exists only when the queues do, so a call of the
\* callback, a task past its creation, or an element in a queue is found only
\* with the queues created; and setup() goes on from the time step to the card
\* step and from the card step to the creation of the queues whatever
\* getLocalTime and SD_MMC.begin returned.
C19_Ordered ==
    /\ cbRegistered => queuesCreated /\ TasksCreated
    /\ dhtTask.pc # "none" \/ soilTask.pc # "none" \/ tgTask.pc # "none" => queuesCreated
    /\ cb.pc # "idle" \/ nRecv > 0 => cbRegistered
    /\ dhtQueue # <<>> \/ soilQueue # <<>> \/ msgQueue # <<>> => queuesCreated

C19_Step ==
    /\ setupPc = "ntp" /\ setupPc' # setupPc => setupPc' = "sd"
    /\ setupPc = "sd" /\ setupPc' # setupPc => setupPc' = "queues"
    /\ ~cbRegistered /\ cbRegistered' => queuesCreated /\ TasksCreated /\ setupPc = "espnow"
    /\ cbRegistered => cbRegistered'

C19_CallbackAfterQueuesAndTasks == []C19_Ordered /\ [][C19_Step]_vars

\* the time was not obtained and the card was not mounted: setup() went through,
\* a record came in and was evaluated
C19_Witness ==
    /\ setupPc = "done" /\ cbRegistered
    /\ ~timeSynced /\ ~sdReady
    /\ saveLog.n = 1 /\ DOMAIN files = {}
    /\ dhtTask.d # NoRec /\ dhtTask.pc = "put"

\* C18 as stated: each of the two sender nodes, once it has handed a packet to
\* the transport, stays in its wait until the confirmation has come or 500 ms
\* have gone by, and not longer.
C18_Step_Original ==
    /\ soilNode.pc = "wait" /\ soilNode'.pc # "wait" =>
          soilNode.envioCompleto \/ soilNode.waited >= ConfirmTimeoutMs
    /\ soilNode'.waited <= ConfirmTimeoutMs
    /\ dhtNode.pc = "delay" /\ dhtNode.sent /\ dhtNode'.pc # "delay" =>
          dhtNode.confirmed \/ dhtNode'.waited >= ConfirmTimeoutMs
    /\ dhtNode'.waited <= ConfirmTimeoutMs

C18_EachNodeWaitsForConfirmation == [][C18_Step_Original]_vars

\* C18 as amended: the soil node leaves its wait for the pump test when
\* OnDataSent has set envioCompleto or when 500 ms have gone by, whichever comes
\* first and whatever esp_now_send returned, and never waits longer; the
\* unified node does not wait for the confirmation: it goes to deep sleep after
\* a fixed 100 ms, confirmed or not, sent or not. Neither node stays awake for
\* want of a confirmation: from its wait each one reaches deep sleep.
C18_Step ==
    /\ soilNode.pc = "wait" /\ soilNode'.pc # "wait" =>
          /\ soilNode'.pc = "pump"
          /\ soilNode.envioCompleto \/ soilNode.waited >= ConfirmTimeoutMs
    /\ soilNode.pc = "wait" /\ soilNode'.pc = "wait" /\ soilNode'.waited # soilNode.waited =>
          /\ ~soilNode.envioCompleto /\ soilNode.waited < ConfirmTimeoutMs
          /\ soilNode'.waited = soilNode.waited + ConfirmPollMs
    /\ dhtNode.pc = "delay" /\ dhtNode'.pc # "delay" =>
          dhtNode'.pc = "sleep" /\ dhtNode'.waited = SendDelayMs

C18_BoundedWait ==
    /\ [](soilNode.waited <= ConfirmTimeoutMs)
    /\ [][C18_Step]_vars
    /\ (soilNode.pc = "wait") ~> (soilNode.pc = "sleep")
    /\ (dhtNode.pc = "delay") ~> (dhtNode.pc = "sleep")

\* both transports took the packet and neither confirmation came: the soil node
\* sleeps after 500 ms of waiting, the unified node after 100 ms
C18_Witness ==
    /\ soilNode.pc = "sleep" /\ soilNode.res /\ ~soilNode.envioCompleto
    /\ soilNode.waited = ConfirmTimeoutMs
    /\ dhtNode.pc = "sleep" /\ dhtNode.sent /\ dhtNode.res /\ ~dhtNode.confirmed
    /\ dhtNode.waited = SendDelayMs

\* SoilTask composes the dry-soil line for the sample the node sent with pct
DryAlert(pct) ==
    /\ Route(SoilPacket(pct)) = "soil"
    /\ SoilMsg(DecodeSoil(SoilPacket(pct).data))
          = <<Line("Suelo muy seco, Bomba encendida", pct)>>

\* C20: the relay is on only between the pump test and the end of the 2 s
\* delay; in a wake cycle it was switched on exactly when pct is below
\* UMBRAL_HUMEDAD, which is exactly when SoilTask builds the dry-soil line for
\* the value sent; and it is off when the node is about to sleep and asleep, as
\* it is wherever else setup() or the task may stand.
C20_PumpMatchesAlert ==
    /\ soilNode.relay <=> soilNode.pc = "pumping"
    /\ soilNode.pumped => soilNode.pc \in {"pumping", "presleep", "sleep"}
    /\ soilNode.pc \in {"pumping", "presleep", "sleep"} =>
          /\ soilNode.pumped <=> soilNode.pct < UMBRAL_HUMEDAD
          /\ soilNode.pumped <=> DryAlert(soilNode.pct)
    /\ soilNode.pc \in {"presleep", "sleep", "halt"} => ~soilNode.relay

\* the node sleeps after a cycle in which it measured 29 % and ran the pump
C20_Witness ==
    /\ soilNode.pc = "sleep" /\ soilNode.pct = 29
    /\ soilNode.pumped /\ ~soilNode.relay

====
